---- MODULE Spec2Model ----
(***************************************************************************)
(* Model of vulkano's image upload core:                                   *)
(*   sync/future/fence_future.rs  FenceFuture<T> (new, poll)               *)
(*   image/immutable2.rs          ImmutableImage (uninitialized,           *)
(*                                from_iter, from_buffer, try_gpu_lock,    *)
(*                                increase_gpu_lock, unlock)               *)
(***************************************************************************)
EXTENDS Integers, Sequences, FiniteSets, TLC

\* ---------------------------------------------------------------- bounds
MaxPayload == 2
MaxReaders == 2
MaxLocks == 2
MaxDim == 1
MaxLen == 2
MaxAllocFails == 1
MaxImages == 2

Payloads == 1..MaxPayload
Readers == 1..MaxReaders

\* ------------------------------------------------------------ data types
\* ImageLayout values the sources name (immutable2.rs:207, :306, cb.rs:117).
ImageLayout == {"Undefined", "ShaderReadOnlyOptimal", "TransferDstOptimal"}

\* Dimensions::Dim2d { width, height } as (width, height, depth): square
\* images whose side is a multiple of 4.
Dimensions == {<<4 * d, 4 * d, 1>> : d \in 1..MaxDim}

\* OomError, the error type of Fence::ready (fence_future.rs:24).
OomError == {"OutOfHostMemory", "OutOfDeviceMemory"}

\* AccessError values returned by try_gpu_lock (immutable2.rs:307-318).
UnexpectedImageLayout(req, allowed) ==
    [tag |-> "UnexpectedImageLayout", requested |-> req, allowed |-> allowed]
ExclusiveDenied == [tag |-> "ExclusiveDenied", requested |-> "-", allowed |-> "-"]
BufferNotInitialized == [tag |-> "BufferNotInitialized", requested |-> "-", allowed |-> "-"]
AccessOk == [tag |-> "Ok", requested |-> "-", allowed |-> "-"]
NoCall == [tag |-> "NoCall", requested |-> "-", allowed |-> "-"]

VARIABLES
    build,      \* progress and outcome of from_iter / from_buffer
    image,      \* the ImmutableImage object (fields of the struct)
    fence,      \* the Fence wrapped by the FenceFuture
    output,     \* FenceFuture.output: <<>> is None, <<p>> is Some(p)
    given,      \* the payload handed to FenceFuture::new
    poisoned,   \* the Mutex around output was poisoned by a panic
    woken,      \* the polling task has a wake-up pending
    lastPoll,   \* what the last call of poll observed and returned
    hist,       \* counts over the polls made so far
    rd,         \* per reader: last try_gpu_lock call and locks held
    ub,         \* the TextureUploadBuilder and what its calls did
    hd          \* two image handles and the last operation applied to them

vars == <<build, image, fence, output, given, poisoned, woken, lastPoll, hist, rd, ub, hd>>
futVars == <<fence, output, given, poisoned, woken, lastPoll, hist>>

\* Pixel values (the element type P of the staged data).
Pixels == {1, 2}

\* The pixel sequences an ExactSizeIterator<Item = P> can yield.
Iters == UNION {[1..n -> Pixels] : n \in 0..MaxLen}

\* Formats (the type parameter F).
Formats == {"R8G8B8A8Unorm", "R8Unorm"}

\* --------------------------------------------------------------- staging
NoStage == [tag |-> "None", data |-> <<>>, attempts |-> 0]

\* The element-by-element write of the iterator into the mapped buffer.
RECURSIVE WriteFrom(_, _, _)
WriteFrom(buf, iter, i) ==
    IF i > Len(iter) THEN buf
    ELSE WriteFrom([buf EXCEPT ![i] = iter[i]], iter, i + 1)

\* CpuAccessibleBuffer::from_iter(device, usage, host_cached, iter): one
\* allocation sized to iter.len(), then the write of every element. `fails`
\* is the number of allocation attempts that would fail in a row.
CpuFromIter(iter, fails) ==
    IF fails > 0
    THEN [tag |-> "Err", data |-> <<>>, attempts |-> 1]
    ELSE [tag |-> "Ok",
          data |-> WriteFrom([i \in 1..Len(iter) |-> 0], iter, 1),
          attempts |-> 1]

\* stage that allocates again after a failed allocation.
Stage_Retries(iter, fails) ==
    LET r == CpuFromIter(iter, fails)
    IN  IF r.tag = "Err"
        THEN [CpuFromIter(iter, fails - 1) EXCEPT !.attempts = 2]
        ELSE r

\* TextureUploadBuilder::stage: from_iter(..).map_err(Error::from).
Stage(iter, fails) == CpuFromIter(iter, fails)

\* ------------------------------------------------------- ImmutableImage
NoImage == [exists |-> FALSE, initialized |-> FALSE,
            layout |-> "Undefined", dimensions |-> <<0, 0, 0>>]

\* ImmutableImage::uninitialized, the struct literal of lines 137-145.
Uninitialized(dimensions, layout) ==
    [exists |-> TRUE, initialized |-> FALSE,
     layout |-> layout, dimensions |-> dimensions]

\* The fallible steps of from_iter / from_buffer, in program order.
BuildSteps == <<"stage", "image_new", "mem_alloc", "bind_memory", "view",
                "upload_builder", "cb_builder", "copy", "cb_build", "execute">>

\* Steps whose failure is returned with `?`; the others are unwrapped.
ReturnsErr == {"stage", "image_new", "mem_alloc", "bind_memory", "view",
               "upload_builder", "cb_builder"}

StepIndex(s) == CHOOSE i \in 1..Len(BuildSteps) : BuildSteps[i] = s

\* The steps completed by a build that starts at step `first` and fails at
\* `fail` ("none": no step fails).
StepsDone(first, fail) ==
    LET last == IF fail = "none" THEN Len(BuildSteps) ELSE StepIndex(fail) - 1
    IN  SubSeq(BuildSteps, first, last)

InSeq(s, sq) == \E i \in 1..Len(sq) : sq[i] = s

NoBuild == [status |-> "none", via |-> "none", failed |-> "none", done |-> <<>>,
            iter |-> <<>>, source |-> <<>>]

\* from_buffer that hands the image out as soon as it is allocated.
BuildFrom_ExposesEarly(via, first, dimensions, iter, src, fail) ==
    LET done == StepsDone(first, fail)
        status == IF fail = "none" THEN "ok"
                  ELSE IF fail \in ReturnsErr THEN "err" ELSE "panic"
    IN  /\ build.status = "none"
        /\ build' = [status |-> status, via |-> via, failed |-> fail, done |-> done,
                     iter |-> iter, source |-> src]
        /\ image' = IF InSeq("view", done)
                    THEN Uninitialized(dimensions, "ShaderReadOnlyOptimal")
                    ELSE image
        /\ UNCHANGED <<futVars, rd, ub, hd>>

\* from_buffer that takes a failed submission for a successful one.
BuildFrom_IgnoresExecute(via, first, dimensions, iter, src, fail) ==
    LET done == StepsDone(first, fail)
        status == IF fail \in {"none", "execute"} THEN "ok"
                  ELSE IF fail \in ReturnsErr THEN "err" ELSE "panic"
    IN  /\ build.status = "none"
        /\ build' = [status |-> status, via |-> via, failed |-> fail, done |-> done,
                     iter |-> iter, source |-> src]
        /\ image' = IF status = "ok"
                    THEN Uninitialized(dimensions, "ShaderReadOnlyOptimal")
                    ELSE image
        /\ UNCHANGED <<futVars, rd, ub, hd>>

\* from_buffer that creates the image in the layout of the copy.
BuildFrom_CopyLayout(via, first, dimensions, iter, src, fail) ==
    LET done == StepsDone(first, fail)
        status == IF fail = "none" THEN "ok"
                  ELSE IF fail \in ReturnsErr THEN "err" ELSE "panic"
    IN  /\ build.status = "none"
        /\ build' = [status |-> status, via |-> via, failed |-> fail, done |-> done,
                     iter |-> iter, source |-> src]
        /\ image' = IF status = "ok"
                    THEN Uninitialized(dimensions, "TransferDstOptimal")
                    ELSE image
        /\ UNCHANGED <<futVars, rd, ub, hd>>

\* ImmutableImage::from_buffer, entered at step `first` (from_iter enters
\* at the staging step and then calls from_buffer). The image allocated by
\* `uninitialized` is a local of from_buffer: it reaches the caller only in
\* Ok((buffer, future)) and is dropped on an early return or a panic.
BuildFrom(via, first, dimensions, iter, src, fail) ==
    LET done == StepsDone(first, fail)
        status == IF fail = "none" THEN "ok"
                  ELSE IF fail \in ReturnsErr THEN "err" ELSE "panic"
    IN  /\ build.status = "none"
        /\ build' = [status |-> status, via |-> via, failed |-> fail, done |-> done,
                     iter |-> iter, source |-> src]
        /\ image' = IF status = "ok"
                    THEN Uninitialized(dimensions, "ShaderReadOnlyOptimal")
                    ELSE image
        /\ UNCHANGED <<futVars, rd, ub, hd>>

\* ImmutableImage::from_iter: CpuAccessibleBuffer::from_iter(..)? and then
\* from_buffer(source, ..).
FromIter(dimensions, iter, fail) ==
    LET staged == CpuFromIter(iter, IF fail = "stage" THEN 1 ELSE 0)
    IN  BuildFrom("from_iter", 1, dimensions, iter, staged.data, fail)

\* ImmutableImage::from_buffer called with a buffer that holds `buf`.
FromBuffer(dimensions, buf, fail) ==
    /\ fail # "stage"
    /\ BuildFrom("from_buffer", 2, dimensions, buf, buf, fail)

\* The caller holds an image handle.
Exposed == image.exists

\* ImageAccess::initial_layout_requirement / final_layout_requirement
InitialLayoutRequirement(img) == img.layout
FinalLayoutRequirement(img) == img.layout

\* ImageViewAccess::descriptor_set_*_layout, by kind of descriptor.
DescriptorKinds == {"storage_image", "combined_image_sampler",
                    "sampled_image", "input_attachment"}
DescriptorSetLayout(img, kind) == img.layout

\* ---------------------------------------------------------- try_gpu_lock
\* try_gpu_lock without the check of the initialized flag.
TryGpuLockResult_NoInitCheck(img, exclusive_access, expected_layout) ==
    IF expected_layout # img.layout /\ expected_layout # "Undefined"
    THEN UnexpectedImageLayout(expected_layout, img.layout)
    ELSE IF exclusive_access
    THEN ExclusiveDenied
    ELSE AccessOk

\* try_gpu_lock without the check of exclusive_access.
TryGpuLockResult_NoExclusiveCheck(img, exclusive_access, expected_layout) ==
    IF expected_layout # img.layout /\ expected_layout # "Undefined"
    THEN UnexpectedImageLayout(expected_layout, img.layout)
    ELSE IF ~img.initialized
    THEN BufferNotInitialized
    ELSE AccessOk

\* try_gpu_lock with exclusive_access checked before the layout.
TryGpuLockResult_ExclusiveFirst(img, exclusive_access, expected_layout) ==
    IF exclusive_access
    THEN ExclusiveDenied
    ELSE IF expected_layout # img.layout /\ expected_layout # "Undefined"
    THEN UnexpectedImageLayout(expected_layout, img.layout)
    ELSE IF ~img.initialized
    THEN BufferNotInitialized
    ELSE AccessOk

\* try_gpu_lock with the initialized flag checked before exclusive_access.
TryGpuLockResult_InitFirst(img, exclusive_access, expected_layout) ==
    IF expected_layout # img.layout /\ expected_layout # "Undefined"
    THEN UnexpectedImageLayout(expected_layout, img.layout)
    ELSE IF ~img.initialized
    THEN BufferNotInitialized
    ELSE IF exclusive_access
    THEN ExclusiveDenied
    ELSE AccessOk

\* try_gpu_lock: the three checks of lines 306-321, in program order.
TryGpuLockResult(img, exclusive_access, expected_layout) ==
    IF expected_layout # img.layout /\ expected_layout # "Undefined"
    THEN UnexpectedImageLayout(expected_layout, img.layout)
    ELSE IF exclusive_access
    THEN ExclusiveDenied
    ELSE IF ~img.initialized
    THEN BufferNotInitialized
    ELSE AccessOk

\* The future has resolved to Ready(Ok(_)) at least once.
Resolved == hist.handed > 0

\* try_gpu_lock that refuses a reader while another reader holds a lock.
TryGpuLock_Serialized(r, exclusive_access, expected_layout) ==
    LET busy == \E o \in Readers \ {r} : rd[o].held > 0
        res == IF busy THEN ExclusiveDenied
               ELSE TryGpuLockResult(image, exclusive_access, expected_layout)
    IN  /\ Exposed
        /\ rd[r].held < MaxLocks
        /\ rd' = [rd EXCEPT ![r] =
                    [exclusive |-> exclusive_access,
                     expected |-> expected_layout,
                     res |-> res,
                     wasInit |-> image.initialized,
                     others |-> busy,
                     held |-> IF res.tag = "Ok" THEN @.held + 1 ELSE @.held]]
        /\ UNCHANGED <<build, image, futVars, ub, hd>>

\* A reader calls try_gpu_lock and keeps the result.
TryGpuLock(r, exclusive_access, expected_layout) ==
    LET res == TryGpuLockResult(image, exclusive_access, expected_layout)
    IN  /\ Exposed
        /\ rd[r].held < MaxLocks
        /\ rd' = [rd EXCEPT ![r] =
                    [exclusive |-> exclusive_access,
                     expected |-> expected_layout,
                     res |-> res,
                     wasInit |-> image.initialized,
                     others |-> \E o \in Readers \ {r} : rd[o].held > 0,
                     held |-> IF res.tag = "Ok" THEN @.held + 1 ELSE @.held]]
        /\ UNCHANGED <<build, image, futVars, ub, hd>>

\* increase_gpu_lock: empty body.
IncreaseGpuLock(r) ==
    /\ Exposed
    /\ rd[r].held > 0
    /\ rd[r].held < MaxLocks
    /\ rd' = [rd EXCEPT ![r].held = @ + 1]
    /\ UNCHANGED <<build, image, futVars, ub, hd>>

\* unlock that marks the image as not initialized again.
Unlock_ResetsInitialized(r) ==
    /\ Exposed
    /\ rd[r].held > 0
    /\ rd' = [rd EXCEPT ![r].held = @ - 1]
    /\ image' = [image EXCEPT !.initialized = FALSE]
    /\ UNCHANGED <<build, futVars, ub, hd>>

\* unlock(new_layout): debug_assert!(new_layout.is_none()), nothing else.
Unlock(r) ==
    /\ Exposed
    /\ rd[r].held > 0
    /\ rd' = [rd EXCEPT ![r].held = @ - 1]
    /\ UNCHANGED <<build, image, futVars, ub, hd>>

\* -------------------------------------------------- TextureUploadBuilder
NoCopy == [recorded |-> FALSE, src |-> NoStage, dst_layout |-> "none"]

NoBuilder == [status |-> "none", dimensions |-> <<>>, format |-> <<>>,
              arg |-> [iter |-> <<>>, fails |-> 0],
              staged |-> NoStage, steps |-> <<>>, copy |-> NoCopy,
              image |-> NoImage, returned |-> FALSE]

\* TextureUploadBuilder::new(queue): UnsafeCommandBufferBuilder::new(..)?
UbNew(oom) ==
    /\ ub.status = "none"
    /\ ub' = [ub EXCEPT !.status = IF oom THEN "oom" ELSE "live"]
    /\ UNCHANGED <<build, image, futVars, rd, hd>>

\* TextureUploadBuilder::dimensions
UbDimensions(dimensions) ==
    /\ ub.status = "live"
    /\ ub' = [ub EXCEPT !.dimensions = <<dimensions>>]
    /\ UNCHANGED <<build, image, futVars, rd, hd>>

\* TextureUploadBuilder::format
UbFormat(format) ==
    /\ ub.status = "live"
    /\ ub' = [ub EXCEPT !.format = <<format>>]
    /\ UNCHANGED <<build, image, futVars, rd, hd>>

\* TextureUploadBuilder::stage, called on its own.
UbStage(iter, fails) ==
    /\ ub.status = "live"
    /\ ub' = [ub EXCEPT !.arg = [iter |-> iter, fails |-> fails],
                       !.staged = Stage(iter, fails)]
    /\ UNCHANGED <<build, image, futVars, rd, hd>>

\* The body of build_from_buffer on builder u with source buffer src: the
\* destination image is created, the copy is recorded, and the function
\* ends in unimplemented!(), so nothing is returned.
BuildFromBufferBody(u, src) ==
    [u EXCEPT !.image = Uninitialized(u.dimensions, "TransferDstOptimal"),
              !.copy = [recorded |-> TRUE, src |-> src,
                        dst_layout |-> "TransferDstOptimal"],
              !.steps = u.steps \o <<"image", "copy">>,
              !.status = "panic"]

\* TextureUploadBuilder::build_from_iter: stage, then build_from_buffer.
UbBuildFromIter(iter, fails) ==
    LET staging == Stage(iter, fails)
        u == [ub EXCEPT !.arg = [iter |-> iter, fails |-> fails],
                        !.staged = staging, !.steps = <<"stage">>]
    IN  /\ ub.status = "live"
        /\ ub' = BuildFromBufferBody(u, staging)
        /\ UNCHANGED <<build, image, futVars, rd, hd>>

\* TextureUploadBuilder::build_from_buffer called with a buffer that
\* holds `buf`.
UbBuildFromBuffer(buf) ==
    /\ ub.status = "live"
    /\ ub' = BuildFromBufferBody(ub, [tag |-> "Ok", data |-> buf, attempts |-> 0])
    /\ UNCHANGED <<build, image, futVars, rd, hd>>

\* ----------------------------------------------------------- FenceFuture
NoFence == [kind |-> "none", signaled |-> FALSE]

NoQuery == [tag |-> "None", ready |-> FALSE, err |-> "-"]

NoPoll == [tag |-> "None", val |-> 0, err |-> "-", query |-> NoQuery,
           sawSignaled |-> FALSE, outBefore |-> <<>>,
           woke |-> FALSE, first |-> FALSE]

\* FenceFuture::new(fence, output). kind "alloc": a fence allocated by the
\* caller, signaled or not (Fence::alloc_signaled in the test); kind
\* "upload": the fence of a submitted upload, which the device signals.
New(kind, signaled, payload) ==
    /\ fence.kind = "none"
    /\ kind = "upload" => Exposed /\ ~signaled
    /\ fence' = [kind |-> kind, signaled |-> signaled]
    /\ output' = <<payload>>
    /\ given' = payload
    /\ woken' = TRUE
    /\ UNCHANGED <<build, image, poisoned, lastPoll, hist, rd, ub, hd>>

\* The device finishes the work the fence guards.
FenceSignal ==
    /\ fence.kind # "none"
    /\ ~fence.signaled
    /\ fence' = [fence EXCEPT !.signaled = TRUE]
    /\ UNCHANGED <<build, image, output, given, poisoned, woken, lastPoll, hist, rd, ub, hd>>

\* Fence::ready(): Ok(signaled) or a device error.
FenceReady(f) ==
    {[tag |-> "Ok", ready |-> f.signaled, err |-> "-"]}
        \cup {[tag |-> "Err", ready |-> FALSE, err |-> e] : e \in OomError}

Sat(n) == IF n < 2 THEN n + 1 ELSE 2

\* poll with the arms of `match ready` swapped.
PollOutcome_ArmsSwapped(q, out, pois) ==
    IF q.tag = "Err"
    THEN [tag |-> "ReadyErr", val |-> 0, err |-> q.err,
          out |-> out, pois |-> pois, woke |-> FALSE]
    ELSE IF q.ready
    THEN [tag |-> "Pending", val |-> 0, err |-> "-",
          out |-> out, pois |-> pois, woke |-> TRUE]
    ELSE IF pois \/ out = <<>>
    THEN [tag |-> "Panic", val |-> 0, err |-> "-",
          out |-> out, pois |-> TRUE, woke |-> FALSE]
    ELSE [tag |-> "ReadyOk", val |-> Head(out), err |-> "-",
          out |-> <<>>, pois |-> pois, woke |-> FALSE]

\* poll that takes the payload before it looks at the query's result.
PollOutcome_TakesOnErr(q, out, pois) ==
    IF q.tag = "Err"
    THEN [tag |-> "ReadyErr", val |-> 0, err |-> q.err,
          out |-> <<>>, pois |-> pois, woke |-> FALSE]
    ELSE IF ~q.ready
    THEN [tag |-> "Pending", val |-> 0, err |-> "-",
          out |-> out, pois |-> pois, woke |-> TRUE]
    ELSE IF pois \/ out = <<>>
    THEN [tag |-> "Panic", val |-> 0, err |-> "-",
          out |-> out, pois |-> TRUE, woke |-> FALSE]
    ELSE [tag |-> "ReadyOk", val |-> Head(out), err |-> "-",
          out |-> <<>>, pois |-> pois, woke |-> FALSE]

\* poll that clones the payload instead of taking it.
PollOutcome_Clones(q, out, pois) ==
    IF q.tag = "Err"
    THEN [tag |-> "ReadyErr", val |-> 0, err |-> q.err,
          out |-> out, pois |-> pois, woke |-> FALSE]
    ELSE IF ~q.ready
    THEN [tag |-> "Pending", val |-> 0, err |-> "-",
          out |-> out, pois |-> pois, woke |-> TRUE]
    ELSE IF pois \/ out = <<>>
    THEN [tag |-> "Panic", val |-> 0, err |-> "-",
          out |-> out, pois |-> TRUE, woke |-> FALSE]
    ELSE [tag |-> "ReadyOk", val |-> Head(out), err |-> "-",
          out |-> out, pois |-> pois, woke |-> FALSE]

\* poll that returns Pending without waking the task.
PollOutcome_NoWake(q, out, pois) ==
    IF q.tag = "Err"
    THEN [tag |-> "ReadyErr", val |-> 0, err |-> q.err,
          out |-> out, pois |-> pois, woke |-> FALSE]
    ELSE IF ~q.ready
    THEN [tag |-> "Pending", val |-> 0, err |-> "-",
          out |-> out, pois |-> pois, woke |-> FALSE]
    ELSE IF pois \/ out = <<>>
    THEN [tag |-> "Panic", val |-> 0, err |-> "-",
          out |-> out, pois |-> TRUE, woke |-> FALSE]
    ELSE [tag |-> "ReadyOk", val |-> Head(out), err |-> "-",
          out |-> <<>>, pois |-> pois, woke |-> FALSE]

\* The body of FenceFuture::poll for one outcome q of self.fence.ready().
\* Returns the poll's result and the fields it leaves behind.
PollOutcome(q, out, pois) ==
    IF q.tag = "Err"
    THEN [tag |-> "ReadyErr", val |-> 0, err |-> q.err,
          out |-> out, pois |-> pois, woke |-> FALSE]
    ELSE IF ~q.ready
    THEN [tag |-> "Pending", val |-> 0, err |-> "-",
          out |-> out, pois |-> pois, woke |-> TRUE]
    ELSE IF pois
    THEN \* lock().unwrap() on a poisoned mutex
         [tag |-> "Panic", val |-> 0, err |-> "-",
          out |-> out, pois |-> TRUE, woke |-> FALSE]
    ELSE IF out = <<>>
    THEN \* take() gives None, unwrap() panics while the guard is held
         [tag |-> "Panic", val |-> 0, err |-> "-",
          out |-> <<>>, pois |-> TRUE, woke |-> FALSE]
    ELSE [tag |-> "ReadyOk", val |-> Head(out), err |-> "-",
          out |-> <<>>, pois |-> pois, woke |-> FALSE]

Poll(q, consumeWake) ==
    LET o == PollOutcome(q, output, poisoned)
        nthSig == IF q.tag = "Ok" /\ q.ready THEN Sat(hist.sigPolls) ELSE hist.sigPolls
    IN  /\ fence.kind # "none"
        /\ output' = o.out
        /\ poisoned' = o.pois
        /\ woken' = IF consumeWake THEN o.woke ELSE (woken \/ o.woke)
        /\ lastPoll' = [tag |-> o.tag, val |-> o.val, err |-> o.err,
                        query |-> q,
                        sawSignaled |-> fence.signaled,
                        outBefore |-> output,
                        woke |-> o.woke,
                        first |-> (q.tag = "Ok" /\ q.ready /\ hist.sigPolls = 0)]
        /\ hist' = [sigPolls |-> nthSig,
                    handed |-> IF o.tag = "ReadyOk" THEN Sat(hist.handed) ELSE hist.handed,
                    erred |-> hist.erred \/ q.tag = "Err",
                    panics |-> hist.panics \/ o.tag = "Panic",
                    pended |-> hist.pended \/ o.tag = "Pending"]
        /\ UNCHANGED <<build, image, fence, given, rd, ub, hd>>

\* The scheduler polls the task because a wake-up is pending.
SchedulerPoll ==
    /\ woken
    /\ \E q \in FenceReady(fence) : Poll(q, TRUE)

\* Any holder of the pinned future calls poll directly.
CallerPoll ==
    \E q \in FenceReady(fence) : Poll(q, FALSE)

\* ------------------------------------------------- identity of image handles
\* Device images alive at the same time, by their raw Vulkan handle.
DeviceImages == 1..MaxImages

\* An ImmutableImage value: the device image it owns and its metadata.
Handles == [image : DeviceImages, dimensions : Dimensions, format : Formats,
            layout : {"ShaderReadOnlyOptimal"}, initialized : BOOLEAN]

\* ImmutableImage owns its UnsafeImage by value: two values that exist
\* together over the same device image are the same value.
Coexist(x, y) == x.image = y.image => x = y

\* UnsafeImage::key: the raw handle of the device image, itself a u64.
UnsafeImageKey(img) == img

\* ImageAccess::conflict_key
ConflictKey(h) == UnsafeImageKey(h.image)

\* conflicts_image that compares the shape of the two images.
ConflictsImage_ByShape(h, other) ==
    h.dimensions = other.dimensions /\ h.format = other.format

\* ImageAccess::conflicts_image
ConflictsImage(h, other) == ConflictKey(h) = ConflictKey(other)

\* ImageAccess::conflicts_buffer
ConflictsBuffer(h, buf) == FALSE

\* ImageAccess::inner
Inner(h) == [image |-> h.image, first_layer |-> 0,
             num_layers |-> h.dimensions[3],
             first_mipmap_level |-> 0, num_mipmap_levels |-> 1]

\* eq that compares the shape of the two images.
Eq_ByShape(h, other) ==
    h.dimensions = other.dimensions /\ h.format = other.format

\* PartialEq::eq
Eq(h, other) == Inner(h) = Inner(other)

\* Hash of ImageInner into a small table: the fields are fed to the hasher
\* in declaration order.
HashSlots == 4
HashInner(in) ==
    (((((in.image * 31 + in.first_layer) * 31 + in.num_layers) * 31
        + in.first_mipmap_level) * 31) + in.num_mipmap_levels) % HashSlots

\* Hash::hash
Hash(h) == HashInner(Inner(h))

NoHandles == [a |-> 0, b |-> 0, op |-> "none", res |-> FALSE, ha |-> 0, hb |-> 0]

HdConflictsImage ==
    /\ hd.op = "none"
    /\ hd' = [hd EXCEPT !.op = "conflicts_image", !.res = ConflictsImage(hd.a, hd.b)]
    /\ UNCHANGED <<build, image, futVars, rd, ub>>

HdConflictsBuffer(buf) ==
    /\ hd.op = "none"
    /\ hd' = [hd EXCEPT !.op = "conflicts_buffer", !.res = ConflictsBuffer(hd.a, buf)]
    /\ UNCHANGED <<build, image, futVars, rd, ub>>

HdEq ==
    /\ hd.op = "none"
    /\ hd' = [hd EXCEPT !.op = "eq", !.res = Eq(hd.a, hd.b)]
    /\ UNCHANGED <<build, image, futVars, rd, ub>>

HdHash ==
    /\ hd.op = "none"
    /\ hd' = [hd EXCEPT !.op = "hash", !.ha = Hash(hd.a), !.hb = Hash(hd.b)]
    /\ UNCHANGED <<build, image, futVars, rd, ub>>

\* ---------------------------------------------------------- specification

IdleReader == [exclusive |-> FALSE, expected |-> "Undefined", res |-> NoCall,
               wasInit |-> FALSE, others |-> FALSE,
               held |-> 0]

InitFuture ==
    /\ fence = NoFence
    /\ output = <<>>
    /\ given = 0
    /\ poisoned = FALSE
    /\ woken = FALSE
    /\ lastPoll = NoPoll
    /\ hist = [sigPolls |-> 0, handed |-> 0, erred |-> FALSE,
               panics |-> FALSE, pended |-> FALSE]

Init ==
    /\ build = NoBuild
    /\ image = NoImage
    /\ InitFuture
    /\ rd = [r \in Readers |-> IdleReader]
    /\ ub = NoBuilder
    /\ hd = NoHandles

FailPoints == {BuildSteps[i] : i \in 1..Len(BuildSteps)} \cup {"none"}

\* The future and the readers never look at the pixel data of the upload:
\* one pixel sequence stands for all of them here.
UploadData == {<<1, 2>>}

\* An upload and its completion future, without the readers of the image.
NextUpload ==
    \/ \E d \in Dimensions, it \in UploadData, f \in FailPoints : FromIter(d, it, f)
    \/ \E d \in Dimensions, b \in UploadData, f \in FailPoints : FromBuffer(d, b, f)
    \/ \E k \in {"alloc", "upload"}, s \in BOOLEAN, p \in Payloads : New(k, s, p)
    \/ FenceSignal
    \/ SchedulerPoll
    \/ CallerPoll

Next ==
    \/ NextUpload
    \/ \E r \in Readers, e \in BOOLEAN, l \in ImageLayout : TryGpuLock(r, e, l)

Spec == Init /\ [][Next]_vars

\* The scheduler polls the task after every wake-up and the device finishes
\* the work it was given.
SpecFair ==
    Init /\ [][NextUpload]_vars /\ WF_vars(SchedulerPoll) /\ WF_vars(FenceSignal)

\* try_gpu_lock / increase_gpu_lock / unlock over every value of the image's
\* fields: the image is the input, the readers apply the operations.
InitAccess ==
    /\ build = [status |-> "ok", via |-> "from_buffer", failed |-> "none",
                done |-> StepsDone(2, "none"),
                iter |-> <<>>, source |-> <<>>]
    /\ image \in [exists : {TRUE}, initialized : BOOLEAN,
                  layout : ImageLayout, dimensions : Dimensions]
    /\ InitFuture
    /\ rd = [r \in Readers |-> IdleReader]
    /\ ub = NoBuilder
    /\ hd = NoHandles

NextAccess ==
    \/ \E r \in Readers, e \in BOOLEAN, l \in ImageLayout : TryGpuLock(r, e, l)
    \/ \E r \in Readers : IncreaseGpuLock(r)
    \/ \E r \in Readers : Unlock(r)

SpecAccess == InitAccess /\ [][NextAccess]_vars

\* The upload builder and the two image constructors over every pixel
\* sequence and every outcome of the staging allocation. The builder and
\* the constructors share no state, so each is explored on its own: a
\* behaviour starts with one of them marked "unused" and never calls it.
InitBuilder ==
    /\ \/ build = NoBuild /\ ub = [NoBuilder EXCEPT !.status = "unused"]
       \/ build = [NoBuild EXCEPT !.status = "unused"] /\ ub = NoBuilder
    /\ image = NoImage
    /\ InitFuture
    /\ rd = [r \in Readers |-> IdleReader]
    /\ hd = NoHandles

NextBuilder ==
    \/ \E oom \in BOOLEAN : UbNew(oom)
    \/ \E d \in Dimensions : UbDimensions(d)
    \/ \E f \in Formats : UbFormat(f)
    \/ \E it \in Iters, n \in 0..MaxAllocFails : UbStage(it, n)
    \/ \E it \in Iters, n \in 0..MaxAllocFails : UbBuildFromIter(it, n)
    \/ \E b \in Iters : UbBuildFromBuffer(b)
    \/ \E d \in Dimensions, it \in Iters, f \in FailPoints : FromIter(d, it, f)
    \/ \E d \in Dimensions, b \in Iters, f \in FailPoints : FromBuffer(d, b, f)
    \/ \E r \in Readers, e \in BOOLEAN, l \in ImageLayout : TryGpuLock(r, e, l)

SpecBuilder == InitBuilder /\ [][NextBuilder]_vars

\* Two image values that exist together, compared.
InitHandles ==
    /\ build = [NoBuild EXCEPT !.status = "unused"]
    /\ ub = [NoBuilder EXCEPT !.status = "unused"]
    /\ image = NoImage
    /\ InitFuture
    /\ rd = [r \in Readers |-> IdleReader]
    /\ \E a, b \in Handles :
          /\ Coexist(a, b)
          /\ hd = [NoHandles EXCEPT !.a = a, !.b = b]

NextHandles ==
    \/ HdConflictsImage
    \/ \E buf \in Iters : HdConflictsBuffer(buf)
    \/ HdEq
    \/ HdHash

SpecHandles == InitHandles /\ [][NextHandles]_vars

\* ------------------------------------------------------------ properties
Called(r) == rd[r].res.tag # "NoCall"

LayoutAccepted(r) == rd[r].expected = image.layout \/ rd[r].expected = "Undefined"

FutureExists == fence.kind # "none"

\* C1: in a sequence of polls whose fence query never errors, a poll made
\* while the fence is not signaled returns Pending, and the first poll made
\* once the fence is signaled returns Ready(Ok(p)) with the p given to new.
C1_PollFollowsFence ==
    (lastPoll.tag # "None" /\ ~hist.erred) =>
        /\ ~lastPoll.sawSignaled => lastPoll.tag = "Pending"
        /\ lastPoll.first => lastPoll.tag = "ReadyOk" /\ lastPoll.val = given

\* C1 witness: the first poll over a signaled fence has resolved the future.
C1_Witness ==
    /\ ~hist.erred
    /\ lastPoll.first
    /\ lastPoll.tag = "ReadyOk"
    /\ lastPoll.val = given

\* C2: once the upload's future has resolved to Ready, a shared request for
\* ShaderReadOnlyOptimal on the built image returns Ok.
C2_AccessOkAfterUpload ==
    [][(Resolved /\ fence.kind = "upload") =>
        \A r \in Readers :
            (rd'[r] # rd[r] /\ ~rd'[r].exclusive
                /\ rd'[r].expected = "ShaderReadOnlyOptimal")
            => rd'[r].res = AccessOk]_vars

\* C3: while initialized is false no request returns Ok, and a shared
\* request with an accepted layout returns the not-initialized error.
C3_NoPrematureRead ==
    \A r \in Readers :
        (Called(r) /\ ~rd[r].wasInit) =>
            /\ rd[r].res # AccessOk
            /\ (~rd[r].exclusive /\ LayoutAccepted(r)) => rd[r].res = BufferNotInitialized

\* C3 witness: every reader asked for shared access to the fresh image,
\* before the upload's fence was signaled, and was refused.
C3_Witness ==
    /\ fence.kind = "upload"
    /\ ~fence.signaled
    /\ \A r \in Readers : rd[r].res = BufferNotInitialized /\ ~rd[r].exclusive

\* C4 as stated: an exclusive request fails with ExclusiveDenied for every
\* state of the image and every expected layout.
C4_AlwaysExclusiveDenied ==
    \A r \in Readers : (Called(r) /\ rd[r].exclusive) => rd[r].res = ExclusiveDenied

\* C4 amended: an exclusive request never returns Ok; it fails with
\* ExclusiveDenied when the expected layout is accepted and with the
\* layout mismatch otherwise.
C4_ExclusiveNeverGranted ==
    \A r \in Readers :
        (Called(r) /\ rd[r].exclusive) =>
            /\ rd[r].res # AccessOk
            /\ LayoutAccepted(r) => rd[r].res = ExclusiveDenied
            /\ ~LayoutAccepted(r) =>
                   rd[r].res = UnexpectedImageLayout(rd[r].expected, image.layout)

\* C4 witness: an exclusive request on an initialized image was denied.
C4_Witness ==
    /\ image.initialized
    /\ \E r \in Readers :
        /\ rd[r].exclusive
        /\ rd[r].expected = image.layout
        /\ rd[r].res = ExclusiveDenied

\* C5: a request whose expected layout is neither the image's layout nor
\* Undefined fails with the layout mismatch, naming both layouts, whatever
\* the exclusive flag and the initialized flag.
C5_LayoutMismatch ==
    \A r \in Readers :
        (Called(r) /\ ~LayoutAccepted(r)) =>
            rd[r].res = UnexpectedImageLayout(rd[r].expected, image.layout)

\* C5 witness: on an initialized image an exclusive and a shared request
\* with a foreign layout were both refused for the layout.
C5_Witness ==
    /\ image.initialized
    /\ \E r, o \in Readers :
        /\ rd[r].exclusive /\ ~rd[o].exclusive
        /\ rd[r].res.tag = "UnexpectedImageLayout"
        /\ rd[o].res.tag = "UnexpectedImageLayout"

\* C6: on an initialized image every shared request with an accepted layout
\* returns Ok whatever the other readers hold, and no access operation
\* changes the image.
C6_ReadersIndependent ==
    /\ [](\A r \in Readers :
            (Called(r) /\ rd[r].wasInit /\ ~rd[r].exclusive /\ LayoutAccepted(r))
            => rd[r].res = AccessOk)
    /\ [][image' = image]_vars

\* C6 witness: a reader was granted access while another reader held locks.
C6_Witness ==
    \E r \in Readers :
        /\ rd[r].res = AccessOk
        /\ rd[r].others
        /\ \E o \in Readers \ {r} : rd[o].held = MaxLocks

\* C7: when the fence query fails, poll returns Ready(Err(e)) with the
\* query's error, requests no wake-up and leaves the payload slot as it was.
C7_QueryErrorResolves ==
    lastPoll.query.tag = "Err" =>
        /\ lastPoll.tag = "ReadyErr"
        /\ lastPoll.err = lastPoll.query.err
        /\ ~lastPoll.woke
        /\ output = lastPoll.outBefore

\* C7 witness: a poll failed on the query while the payload was present.
C7_Witness ==
    /\ lastPoll.tag = "ReadyErr"
    /\ lastPoll.outBefore = <<given>>
    /\ fence.signaled

\* C8: the payload is in its slot until the first poll that returns
\* Ready(Ok), absent from then on, and handed out at most once.
C8_PayloadOnce ==
    FutureExists =>
        /\ hist.handed = 0 => output = <<given>>
        /\ hist.handed > 0 => output = <<>>
        /\ hist.handed <= 1

\* C8 witness: the payload was handed out and a later poll was made.
C8_Witness ==
    /\ hist.handed = 1
    /\ hist.erred
    /\ hist.pended
    /\ lastPoll.tag \in {"ReadyErr", "Panic"}
    /\ lastPoll.outBefore = <<>>

\* C9: no sequence of polls reaches a panic.
C9_NoPanic == ~hist.panics

\* C10: a poll that returns Pending has requested a wake-up, an unresolved
\* future always has a wake-up pending, and under a scheduler that polls on
\* wake-up and a fence that gets signaled the future resolves to
\* Ready(Ok(payload)) unless the query fails.
C10_NoLostWakeup ==
    /\ [](lastPoll.tag = "Pending" => lastPoll.woke)
    /\ []((FutureExists /\ hist.handed = 0 /\ ~hist.erred) => woken)
    /\ [](lastPoll.tag = "ReadyOk" => lastPoll.val = given)
    /\ (FutureExists ~> (hist.erred \/ hist.handed > 0))

\* C10 witness: polls returned Pending, then the future resolved.
C10_Witness ==
    /\ hist.pended
    /\ ~hist.erred
    /\ lastPoll.tag = "ReadyOk"
    /\ lastPoll.val = given

\* The steps that stage the data and create the destination image.
CreationSteps == {"stage", "image_new", "mem_alloc", "bind_memory", "view"}

\* The steps that record, close and submit the upload command sequence.
UploadSteps == {"upload_builder", "cb_builder", "copy", "cb_build", "execute"}

\* C12: when staging or the creation of the destination image fails the
\* build returns an error and the caller gets no image; the caller holds an
\* image only after a build that returned Ok with the upload submitted.
C12_NoHandleOnCreationFailure ==
    /\ build.failed \in CreationSteps => build.status = "err" /\ ~image.exists
    /\ image.exists => build.status = "ok" /\ InSeq("execute", build.done)

\* C12 witness: the creation of the image view failed.
C12_Witness ==
    /\ build.failed = "view"
    /\ build.status = "err"
    /\ InSeq("bind_memory", build.done)

\* C13: a failure to record, close or submit the upload command sequence
\* is returned as an error, with no image exposed and without a panic.
C13_UploadFailureIsError ==
    build.failed \in UploadSteps => build.status = "err" /\ ~image.exists

\* C20: try_gpu_lock reports the first failing check in the order layout,
\* exclusive, initialized; Ok is returned iff the layout is accepted, the
\* request is shared and the image is initialized.
C20_Precedence ==
    \A r \in Readers :
        Called(r) =>
            /\ rd[r].res.tag = "UnexpectedImageLayout" <=> ~LayoutAccepted(r)
            /\ rd[r].res.tag = "ExclusiveDenied" <=> (LayoutAccepted(r) /\ rd[r].exclusive)
            /\ rd[r].res.tag = "BufferNotInitialized"
                   <=> (LayoutAccepted(r) /\ ~rd[r].exclusive /\ ~rd[r].wasInit)
            /\ rd[r].res.tag = "Ok"
                   <=> (LayoutAccepted(r) /\ ~rd[r].exclusive /\ rd[r].wasInit)

\* C20 witness: an exclusive request with an accepted layout on an image
\* that is not initialized was refused as exclusive, and an exclusive
\* request with a foreign layout was refused for the layout.
C20_Witness ==
    /\ ~image.initialized
    /\ \E r, o \in Readers :
        /\ rd[r].exclusive /\ rd[r].res = ExclusiveDenied
        /\ rd[o].exclusive /\ rd[o].res.tag = "UnexpectedImageLayout"

\* C17: the initialized flag is false in a newly created image, never goes
\* from true to false (so it changes at most once), and once a shared
\* request with an accepted layout has returned Ok every later one does.
C17_InitializedOneWay ==
    /\ [](\A d \in Dimensions, l \in ImageLayout : ~Uninitialized(d, l).initialized)
    /\ [][image.initialized => image'.initialized]_vars
    /\ [][(\E o \in Readers : rd[o].res = AccessOk) =>
            \A r \in Readers :
                (rd'[r] # rd[r] /\ ~rd'[r].exclusive
                    /\ rd'[r].expected \in {image'.layout, "Undefined"})
                => rd'[r].res = AccessOk]_vars

\* C17 witness: every reader was granted shared access, one after another.
C17_Witness ==
    /\ image.initialized
    /\ \A r \in Readers : rd[r].res = AccessOk /\ rd[r].held > 0
    /\ \E r \in Readers : rd[r].others

\* a comes before b in the sequence of steps sq.
Before(a, b, sq) ==
    \E i, j \in 1..Len(sq) : i < j /\ sq[i] = a /\ sq[j] = b

C16_StagingRoundTrip ==
    /\ ub.staged.tag = "Ok" =>
           /\ Len(ub.staged.data) = Len(ub.arg.iter)
           /\ \A i \in 1..Len(ub.arg.iter) : ub.staged.data[i] = ub.arg.iter[i]
    /\ ub.staged.tag # "None" =>
           /\ ub.staged.attempts = 1
           /\ ub.staged.tag = "Err" <=> ub.arg.fails > 0
    /\ (build.via = "from_iter" /\ InSeq("stage", build.done)) =>
           build.source = build.iter
    /\ build.failed = "stage" => build.status = "err" /\ build.source = <<>>

\* C16 witness: two different pixels were staged in their order.
C16_Witness ==
    /\ ub.staged.tag = "Ok"
    /\ Len(ub.staged.data) = 2
    /\ ub.staged.data[1] # ub.staged.data[2]
    /\ ub.staged.data = ub.arg.iter

\* C18: the builder never records the copy before data has been staged and
\* never changes dimensions or format once data has been staged.
C18_PhasesOneWay ==
    /\ [](ub.copy.recorded => ub.staged.tag = "Ok")
    /\ [][ub.staged.tag = "Ok" =>
            (ub'.dimensions = ub.dimensions /\ ub'.format = ub.format)]_vars

\* C19: in a build the staging precedes the recording of the copy, the copy
\* precedes the closing of the sequence, the closing precedes the
\* submission, and a future is returned only after the submission.
C19_StepOrder ==
    /\ (build.via = "from_iter" /\ InSeq("copy", build.done)) =>
           Before("stage", "copy", build.done)
    /\ InSeq("cb_build", build.done) => Before("copy", "cb_build", build.done)
    /\ InSeq("execute", build.done) => Before("cb_build", "execute", build.done)
    /\ build.status = "ok" => InSeq("execute", build.done)
    /\ (ub.copy.recorded /\ InSeq("stage", ub.steps)) => Before("stage", "copy", ub.steps)
    /\ ~ub.returned

\* C19 witness: from_iter went through staging, copy, close and submit and
\* returned the image with its future.
C19_Witness ==
    /\ build.via = "from_iter"
    /\ build.status = "ok"
    /\ image.exists
    /\ Before("stage", "execute", build.done)

\* C11: conflicts_image is true exactly when the conflict keys are equal:
\* true for the same device image, false for two device images even of the
\* same dimensions and format; conflicts_buffer is false for every buffer.
C11_ConflictByKey ==
    /\ hd.op = "conflicts_image" =>
           /\ hd.res <=> ConflictKey(hd.a) = ConflictKey(hd.b)
           /\ hd.res <=> hd.a.image = hd.b.image
    /\ hd.op = "conflicts_buffer" => hd.res = FALSE

\* C11 witness: two device images of the same dimensions and format were
\* compared and do not conflict.
C11_Witness ==
    /\ hd.op = "conflicts_image"
    /\ hd.a.image # hd.b.image
    /\ hd.a.dimensions = hd.b.dimensions
    /\ hd.a.format = hd.b.format
    /\ hd.res = FALSE

\* C15: two handles are equal exactly when their ImageInner are equal,
\* whatever their dimensions, format, layout and initialized flag; equality
\* is reflexive, symmetric and transitive, and equal handles hash equally.
C15_IdentityEquality ==
    /\ hd.op = "eq" =>
           /\ hd.res <=> Inner(hd.a) = Inner(hd.b)
           /\ hd.res <=> hd.a.image = hd.b.image
           /\ Eq(hd.a, hd.a) /\ Eq(hd.b, hd.b)
           /\ Eq(hd.a, hd.b) <=> Eq(hd.b, hd.a)
           /\ \A z \in Handles :
                  (Coexist(hd.a, z) /\ Coexist(hd.b, z) /\ Eq(hd.a, hd.b) /\ Eq(hd.b, z))
                      => Eq(hd.a, z)
    /\ hd.op = "hash" => (Eq(hd.a, hd.b) => hd.ha = hd.hb)

\* C15 witness: two device images with the same dimensions, format, layout
\* and initialized flag were compared and are not equal.
C15_Witness ==
    /\ hd.op = "eq"
    /\ hd.a.image # hd.b.image
    /\ [hd.a EXCEPT !.image = hd.b.image] = hd.b
    /\ hd.res = FALSE

====
